---- MODULE Spec2Model ----
(***************************************************************************)
(* Protocol engine of broadlinkzard (broadlinkzard.go): frame checksum,    *)
(* AES-CBC session cipher,     the UDP listener goroutine, the pending     *)
(* response channel and the calls that wait on it, the authentication      *)
(* handshake and the power commands of the SP2 and MP1 device families.    *)
(*                                                                         *)
(* Byte slices are sequences of naturals in 0..255; the byte at Go offset  *)
(* o of slice s is s[o + 1].                                               *)
(***************************************************************************)
EXTENDS Integers, Sequences, FiniteSets, Bags, TLC

----------------------------------------------------------------------------
(* Bytes, little-endian fields and slices                                   *)

Byte == 0..255

\* s itself, as an explicit tuple (TLC keeps a function expression unevaluated
\* until it is applied; concatenation evaluates every element once)
Eager(s) == s \o <<>>

\* b, with a evaluated first (a tuple is evaluated element by element): keeps
\* the evaluation of a chain of rounds or blocks shallow
After(a, b) == <<a, b>>[2]

\* n zero bytes: make([]byte, n) / bytes.Repeat([]byte{0x00}, n)
Zeros(n) == Eager([i \in 1..n |-> 0])

\* Go's s[lo:hi] for 0 <= lo <= hi <= len(s) (offsets are 0-based)
Slice(s, lo, hi) == Eager([i \in 1..(hi - lo) |-> s[lo + i]])

\* copy(dst[off:], src): overwrites min(len(src), len(dst)-off) bytes
CopyAt(dst, off, src) ==
    Eager([i \in 1..Len(dst) |->
        IF i > off /\ i <= off + Len(src) THEN src[i - off] ELSE dst[i]])

\* binary.LittleEndian.Uint16(b[off:]) for off + 2 <= len(b)
Uint16LE(b, off) == b[off + 1] + 256 * b[off + 2]

\* binary.LittleEndian.PutUint16(b[off:], v)
PutUint16LE(b, off, v) == CopyAt(b, off, <<v % 256, (v \div 256) % 256>>)

\* A uint32 is kept as its four bytes, least significant first: its values
\* reach 2^32 - 1, beyond the integers TLC computes with.
Uint32Zero == <<0, 0, 0, 0>>

\* binary.LittleEndian.Uint32(b[off:]) for off + 4 <= len(b)
Uint32LE(b, off) == Slice(b, off, off + 4)

\* binary.LittleEndian.PutUint32(b[off:], v)
PutUint32LE(b, off, v) == CopyAt(b, off, v)

----------------------------------------------------------------------------
(* AES (crypto/aes) and CBC chaining (crypto/cipher), as the library        *)
(* computes them: FIPS-197 cipher and inverse cipher on 16-byte blocks,     *)
(* for keys of 16, 24 and 32 bytes.                                         *)

BlockSize == 16

\* bit k of a ^ b: the bits of the operands added modulo 2
XorBit(a, b, k) == ((a \div (2 ^ k)) + (b \div (2 ^ k))) % 2

\* a ^ b for bytes a and b, tabulated: XorTable[a + 1][b + 1]
XorTable ==
    Eager([a \in 1..256 |-> Eager([b \in 1..256 |->
        LET bits[k \in 0..8] ==
                IF k = 8 THEN 0 ELSE XorBit(a - 1, b - 1, k) + 2 * bits[k + 1]
        IN  bits[0]])])

Xor(a, b) == XorTable[a + 1][b + 1]

XorBytes(x, y) == Eager([i \in 1..Len(x) |-> Xor(x[i], y[i])])

SBox == <<
     99, 124, 119, 123, 242, 107, 111, 197,  48,   1, 103,  43, 254, 215, 171, 118,
    202, 130, 201, 125, 250,  89,  71, 240, 173, 212, 162, 175, 156, 164, 114, 192,
    183, 253, 147,  38,  54,  63, 247, 204,  52, 165, 229, 241, 113, 216,  49,  21,
      4, 199,  35, 195,  24, 150,   5, 154,   7,  18, 128, 226, 235,  39, 178, 117,
      9, 131,  44,  26,  27, 110,  90, 160,  82,  59, 214, 179,  41, 227,  47, 132,
     83, 209,   0, 237,  32, 252, 177,  91, 106, 203, 190,  57,  74,  76,  88, 207,
    208, 239, 170, 251,  67,  77,  51, 133,  69, 249,   2, 127,  80,  60, 159, 168,
     81, 163,  64, 143, 146, 157,  56, 245, 188, 182, 218,  33,  16, 255, 243, 210,
    205,  12,  19, 236,  95, 151,  68,  23, 196, 167, 126,  61, 100,  93,  25, 115,
     96, 129,  79, 220,  34,  42, 144, 136,  70, 238, 184,  20, 222,  94,  11, 219,
    224,  50,  58,  10,  73,   6,  36,  92, 194, 211, 172,  98, 145, 149, 228, 121,
    231, 200,  55, 109, 141, 213,  78, 169, 108,  86, 244, 234, 101, 122, 174,   8,
    186, 120,  37,  46,  28, 166, 180, 198, 232, 221, 116,  31,  75, 189, 139, 138,
    112,  62, 181, 102,  72,   3, 246,  14,  97,  53,  87, 185, 134, 193,  29, 158,
    225, 248, 152,  17, 105, 217, 142, 148, 155,  30, 135, 233, 206,  85,  40, 223,
    140, 161, 137,  13, 191, 230,  66, 104,  65, 153,  45,  15, 176,  84, 187,  22 >>

InvSBox == <<
     82,   9, 106, 213,  48,  54, 165,  56, 191,  64, 163, 158, 129, 243, 215, 251,
    124, 227,  57, 130, 155,  47, 255, 135,  52, 142,  67,  68, 196, 222, 233, 203,
     84, 123, 148,  50, 166, 194,  35,  61, 238,  76, 149,  11,  66, 250, 195,  78,
      8,  46, 161, 102,  40, 217,  36, 178, 118,  91, 162,  73, 109, 139, 209,  37,
    114, 248, 246, 100, 134, 104, 152,  22, 212, 164,  92, 204,  93, 101, 182, 146,
    108, 112,  72,  80, 253, 237, 185, 218,  94,  21,  70,  87, 167, 141, 157, 132,
    144, 216, 171,   0, 140, 188, 211,  10, 247, 228,  88,   5, 184, 179,  69,   6,
    208,  44,  30, 143, 202,  63,  15,   2, 193, 175, 189,   3,   1,  19, 138, 107,
     58, 145,  17,  65,  79, 103, 220, 234, 151, 242, 207, 206, 240, 180, 230, 115,
    150, 172, 116,  34, 231, 173,  53, 133, 226, 249,  55, 232,  28, 117, 223, 110,
     71, 241,  26, 113,  29,  41, 197, 137, 111, 183,  98,  14, 170,  24, 190,  27,
    252,  86,  62,  75, 198, 210, 121,  32, 154, 219, 192, 254, 120, 205,  90, 244,
     31, 221, 168,  51, 136,   7, 199,  49, 177,  18,  16,  89,  39, 128, 236,  95,
     96,  81, 127, 169,  25, 181,  74,  13,  45, 229, 122, 159, 147, 201, 156, 239,
    160, 224,  59,  77, 174,  42, 245, 176, 200, 235, 187,  60, 131,  83, 153,  97,
     23,  43,   4, 126, 186, 119, 214,  38, 225, 105,  20,  99,  85,  33,  12, 125 >>

\* multiplication by x in GF(2^8) modulo x^8 + x^4 + x^3 + x + 1
XTime(a) == IF a < 128 THEN 2 * a ELSE Xor(2 * a - 256, 27)

\* a times n in GF(2^8), for the coefficients 1..15: the multiples of a by
\* 1, x, x^2 and x^3 that the bits of n select, added
GMulBy(a, n) ==
    Xor(Xor(IF n % 2 = 1 THEN a ELSE 0,
            IF (n \div 2) % 2 = 1 THEN XTime(a) ELSE 0),
        Xor(IF (n \div 4) % 2 = 1 THEN XTime(XTime(a)) ELSE 0,
            IF (n \div 8) % 2 = 1 THEN XTime(XTime(XTime(a))) ELSE 0))

\* GMulBy tabulated: GMulTable[n][a + 1]
GMulTable == Eager([n \in 1..14 |->
    Eager([a \in 1..256 |-> GMulBy(a - 1, n)])])

GMul(a, n) == GMulTable[n][a + 1]

SubBytes(s) == Eager([i \in 1..16 |-> SBox[s[i] + 1]])

InvSubBytes(s) == Eager([i \in 1..16 |-> InvSBox[s[i] + 1]])

\* state byte i (0-based) is row i % 4, column i \div 4
ShiftRows(s) ==
    Eager([k \in 1..16 |->
        LET r == (k - 1) % 4
            c == (k - 1) \div 4
        IN  s[r + 4 * ((c + r) % 4) + 1]])

InvShiftRows(s) ==
    Eager([k \in 1..16 |->
        LET r == (k - 1) % 4
            c == (k - 1) \div 4
        IN  s[r + 4 * ((c + 4 - r) % 4) + 1]])

\* the coefficients of MixColumns and of its inverse, row by row
MixMatrix == <<<<2, 3, 1, 1>>, <<1, 2, 3, 1>>, <<1, 1, 2, 3>>, <<3, 1, 1, 2>>>>

InvMixMatrix ==
    <<<<14, 11, 13, 9>>, <<9, 14, 11, 13>>, <<13, 9, 14, 11>>, <<11, 13, 9, 14>>>>

\* row m of the matrix times column c of the state
MixRow(s, c, m) ==
    LET acc[j \in 0..4] ==
            IF j = 0 THEN 0 ELSE Xor(acc[j - 1], GMul(s[4 * c + j], m[j]))
    IN  acc[4]

MixColumnsBy(s, matrix) ==
    Eager([k \in 1..16 |-> MixRow(s, (k - 1) \div 4, matrix[((k - 1) % 4) + 1])])

MixColumns(s) == MixColumnsBy(s, MixMatrix)

InvMixColumns(s) == MixColumnsBy(s, InvMixMatrix)

\* round constants of the key schedule
Rcon == <<1, 2, 4, 8, 16, 32, 64, 128, 27, 54>>

\* the Len(k) bytes of the key schedule that follow its bytes k, the last
\* Len(k) so far (Len(k) is the key length, 4 * Nk), with round constant rc:
\* word 0 is the first word of k xor SubWord(RotWord(last word of k)) xor rc,
\* and word i the i-th word of k xor word i - 1, taken through SubWord for
\* word 4 of a 32-byte key; acc[i] is the first i words
NextRoundKey(k, rc) ==
    LET n == Len(k)
        t == <<Xor(SBox[k[n - 2] + 1], rc), SBox[k[n - 1] + 1],
               SBox[k[n] + 1], SBox[k[n - 3] + 1]>>
        acc[i \in 0..(n \div 4)] ==
            IF i = 0 THEN <<>>
            ELSE LET done == acc[i - 1]
                     last == IF i = 1 THEN t
                             ELSE Slice(done, 4 * (i - 2), 4 * (i - 1))
                     temp == IF n = 32 /\ i = 5
                             THEN Eager([j \in 1..4 |-> SBox[last[j] + 1]])
                             ELSE last
                 IN  After(done,
                           done \o XorBytes(Slice(k, 4 * (i - 1), 4 * i), temp))
    IN  acc[n \div 4]

\* the rounds of the cipher for a key of 16, 24 or 32 bytes: 10, 12 or 14
Rounds(key) == (Len(key) \div 4) + 6

\* The key schedule of a 16-, 24- or 32-byte key: round keys 0..Nr as
\* ExpandKey(key)[1..Nr + 1]; sched[i] is the schedule after i expansions of
\* Len(key) bytes each
ExpandKey(key) ==
    LET n  == Len(key)
        nr == Rounds(key)
        steps == (16 * (nr + 1) + n - 1) \div n - 1
        sched[i \in 0..steps] ==
            IF i = 0 THEN key
            ELSE LET prev == sched[i - 1]
                 IN  After(prev,
                           prev \o NextRoundKey(Slice(prev, n * (i - 1), n * i),
                                                Rcon[i]))
        all == sched[steps]
    IN  Eager([i \in 1..(nr + 1) |-> Slice(all, 16 * (i - 1), 16 * i)])

EncRound(s, k) == XorBytes(MixColumns(ShiftRows(SubBytes(s))), k)

\* cipher.Block.Encrypt with the round keys w: Nr - 1 full rounds and the
\* last one without MixColumns; st[r] is the state after round r
EncryptBlock(w, in) ==
    LET nr == Len(w) - 1
        st[r \in 0..(nr - 1)] ==
            IF r = 0 THEN XorBytes(in, w[1])
            ELSE LET prev == st[r - 1]
                 IN  After(prev, EncRound(prev, w[r + 1]))
    IN  XorBytes(ShiftRows(SubBytes(st[nr - 1])), w[nr + 1])

DecRound(s, k) == InvMixColumns(XorBytes(InvSubBytes(InvShiftRows(s)), k))

\* cipher.Block.Decrypt with the round keys w; st[r] is the state after
\* inverse round r
DecryptBlock(w, in) ==
    LET nr == Len(w) - 1
        st[r \in 0..(nr - 1)] ==
            IF r = 0 THEN XorBytes(in, w[nr + 1])
            ELSE LET prev == st[r - 1]
                 IN  After(prev, DecRound(prev, w[nr + 1 - r]))
    IN  XorBytes(InvSubBytes(InvShiftRows(st[nr - 1])), w[1])

\* cipher.NewCBCEncrypter(block, iv).CryptBlocks(dst, src), len(src) % 16 = 0:
\* out[n] is the ciphertext of the first n blocks
CBCEncrypt(key, iv, src) ==
    LET w == ExpandKey(key)
        out[n \in 0..(Len(src) \div BlockSize)] ==
            IF n = 0 THEN <<>>
            ELSE LET done == out[n - 1]
                     prev == IF n = 1 THEN iv
                             ELSE Slice(done, BlockSize * (n - 2), BlockSize * (n - 1))
                     blk  == Slice(src, BlockSize * (n - 1), BlockSize * n)
                 IN  done \o EncryptBlock(w, XorBytes(blk, prev))
    IN  IF Len(w) > 0 THEN out[Len(src) \div BlockSize] ELSE <<>>

\* cipher.NewCBCDecrypter(block, iv).CryptBlocks(dst, src), len(src) % 16 = 0
CBCDecrypt(key, iv, src) ==
    LET w == ExpandKey(key)
        out[n \in 0..(Len(src) \div BlockSize)] ==
            IF n = 0 THEN <<>>
            ELSE LET done == out[n - 1]
                     prev == IF n = 1 THEN iv
                             ELSE Slice(src, BlockSize * (n - 2), BlockSize * (n - 1))
                     blk  == Slice(src, BlockSize * (n - 1), BlockSize * n)
                 IN  done \o XorBytes(DecryptBlock(w, blk), prev)
    IN  IF Len(w) > 0 THEN out[Len(src) \div BlockSize] ELSE <<>>

----------------
(* padding, checksums, encrypt and decrypt                                   *)

ChecksumInit == 48815          \* 0xbeaf

ChecksumPos == 32              \* 0x20

\* a faulty padding, which adds nothing to an aligned packet
padding_ToBoundary(packet, blockSize) ==
    packet \o Zeros((blockSize - (Len(packet) % blockSize)) % blockSize)

\* padding(packet, blockSize), blockSize > 0 (it is aes.BlockSize at both
\* calls): always appends, a whole block when aligned
padding(packet, blockSize) ==
    packet \o Zeros(blockSize - (Len(packet) % blockSize))

\* unPadding(src): strips as many bytes as the value of the last byte.
\* src[length-1] panics on an empty slice, and src[:length-unpadding] when the
\* last byte is greater than the length; data is what is returned otherwise.
unPadding(src) ==
    IF Len(src) = 0 \/ src[Len(src)] > Len(src)
    THEN [panic |-> TRUE, data |-> <<>>]
    ELSE [panic |-> FALSE, data |-> Slice(src, 0, Len(src) - src[Len(src)])]

\* calcChecksum(payload): 0xbeaf plus every byte, in uint16.  sum[lo, hi] is
\* the uint16 sum of payload[lo..hi] (1-based), taken in halves: addition
\* modulo 2^16 is associative, and halving keeps the evaluation shallow on
\* the listener's 2048-byte buffer.
calcChecksum(payload) ==
    LET n == Len(payload)
        sum[lo \in 1..(n + 1), hi \in 0..n] ==
            IF lo > hi THEN 0
            ELSE IF lo = hi THEN payload[lo]
            ELSE LET mid == (lo + hi) \div 2
                 IN  (sum[lo, mid] + sum[mid + 1, hi]) % 65536
    IN  (ChecksumInit + sum[1, n]) % 65536

\* a faulty checkChecksum, which accepts every buffer
checkChecksum_AcceptAll(payload, checksumPos) ==
    [ok |-> TRUE, panic |-> FALSE, payload |-> payload]

\* a faulty checkChecksum, which leaves the checksum field zeroed
checkChecksum_NoRestore(payload, checksumPos) ==
    IF Len(payload) < checksumPos + 2
    THEN [ok |-> FALSE, panic |-> TRUE, payload |-> payload]
    ELSE [ok      |-> calcChecksum(PutUint16LE(payload, checksumPos, 0))
                         = Uint16LE(payload, checksumPos),
          panic   |-> FALSE,
          payload |-> PutUint16LE(payload, checksumPos, 0)]

\* checkChecksum(payload, checksumPos): the verdict, and the buffer as the
\* call leaves it; payload[checksumPos : checksumPos+2] panics on a buffer
\* that ends before checksumPos + 2, the buffer untouched
checkChecksum(payload, checksumPos) ==
    IF Len(payload) < checksumPos + 2
    THEN [ok |-> FALSE, panic |-> TRUE, payload |-> payload]
    ELSE LET origChecksum == Uint16LE(payload, checksumPos)
             zeroed       == PutUint16LE(payload, checksumPos, 0)
             newChecksum  == calcChecksum(zeroed)
         IN  [ok      |-> newChecksum = origChecksum,
              panic   |-> FALSE,
              payload |-> PutUint16LE(zeroed, checksumPos, origChecksum)]

\* aes.NewCipher(key) fails unless the key has 16, 24 or 32 bytes
NewCipherFails(key) == Len(key) \notin {16, 24, 32}

\* encrypt(key, iv, text): pads, then CBC-encrypts.  cipher.NewCBCEncrypter
\* panics on an IV that is not one block long.
encrypt(key, iv, text) ==
    IF NewCipherFails(key)
    THEN [err |-> "invalid key size", panic |-> FALSE, data |-> <<>>]
    ELSE IF Len(iv) # BlockSize
    THEN [err |-> "", panic |-> TRUE, data |-> <<>>]
    ELSE [err |-> "", panic |-> FALSE,
          data |-> CBCEncrypt(key, iv, padding(text, BlockSize))]

\* decrypt(key, iv, encText).  cipher.NewCBCDecrypter panics on an IV that is
\* not one block long, and CryptBlocks on input that is not a whole number of
\* blocks.
decrypt(key, iv, encText) ==
    IF NewCipherFails(key)
    THEN [err |-> "invalid key size", panic |-> FALSE, data |-> <<>>]
    ELSE IF Len(encText) < BlockSize
    THEN [err |-> "ciphertext too short", panic |-> FALSE, data |-> <<>>]
    ELSE IF Len(iv) # BlockSize \/ Len(encText) % BlockSize # 0
    THEN [err |-> "", panic |-> TRUE, data |-> <<>>]
    ELSE [err |-> "", panic |-> FALSE, data |-> CBCDecrypt(key, iv, encText)]

----------------------------------------------------------------------------
(* The device structure and the frames it sends                             *)

HeaderLen == 56                \* 0x38

CmdAuth == 101                 \* 0x65, the command of Auth's request

AuthResponseType == 1001       \* 0x3e9, the type Auth waits for

CmdEnvelope == 106             \* 0x6a, the command of every power operation

SendPacketTimeout == 1         \* SendPacket: RecvResponse(time.Duration(1))

DefaultTimeout == 10           \* initVars: TimeoutDefault = time.Duration(10)

DefaultKey ==
    <<9, 118, 40, 52, 63, 233, 158, 35, 118, 92, 21, 19, 172, 207, 139, 2>>

DefaultIv ==
    <<86, 46, 23, 153, 109, 9, 61, 40, 221, 179, 186, 105, 90, 46, 111, 88>>

\* the model codes NewBroadlinkDirectDevice builds a BroadlinkDeviceSp2 for
Sp2Types ==
    {10001, 10009, 31001, 10010, 31002, 10016, 30014, 32000, 38010, 38009,
     10024, 10035, 10046, 30000, 30022, 31000, 32013, 10038}

\* the model codes NewBroadlinkDirectDevice builds a BroadlinkDeviceMp1 for
Mp1Types == {20149, 20215}

\* the concrete type behind the interface value NewBroadlinkDirectDevice
\* returns for model code iType
Family(iType) ==
    IF iType \in Sp2Types THEN "sp2"
    ELSE IF iType \in Mp1Types THEN "mp1"
    ELSE "base"

\* initVars: the fields of a new device; cs is "open", or "nil" when
\* net.ListenUDP failed (its error is dropped)
initVars(d, cs) ==
    [d EXCEPT !.encKey = DefaultKey, !.encIv = DefaultIv, !.SendCount = 0,
              !.TimeoutDefault = DefaultTimeout, !.CS = cs]

\* NewBroadlinkDirectDevice(iType, sIP, sMac) with an address and a MAC that
\* parse: the base device keeps the zero DevType and HwMac
NewBroadlinkDirectDevice(iType, hwMac, cs) ==
    LET zero == [DevID |-> Uint32Zero, DevType |-> 0, HwMac |-> Zeros(6),
                 encKey |-> <<>>, encIv |-> <<>>, CS |-> "nil",
                 SendCount |-> 0, TimeoutDefault |-> 0]
    IN  IF Family(iType) = "base"
        THEN initVars(zero, cs)
        ELSE initVars([zero EXCEPT !.DevType = iType, !.HwMac = hwMac], cs)

\* SetPower's payload
SetPowerPayload(onstate) ==
    [i \in 1..16 |-> IF i = 1 THEN 2 ELSE IF i = 5 /\ onstate THEN 1 ELSE 0] \o <<>>

\* QueryPower's payload
QueryPowerPayload == CopyAt(Zeros(16), 0, <<1>>)

\* a faulty SetPowerMask, which keeps the enabled sub-mask when turning off
SetPowerMaskPayload_OffKeepsMask(smask, onstate) ==
    CopyAt(Zeros(16), 0,
           <<13, 0, 165, 165, 90, 90,
             ((IF onstate THEN (smask * 2) % 256 ELSE smask) + 178) % 256,
             192, 2, 0, 3, 0, 0, smask, smask>>)

\* SetPowerMask's payload; vb2 and v0e are computed in uint8
SetPowerMaskPayload(smask, onstate) ==
    LET vb2 == ((IF onstate THEN (smask * 2) % 256 ELSE smask) + 178) % 256
        v0e == IF onstate THEN smask ELSE 0
    IN  CopyAt(Zeros(16), 0,
               <<13, 0, 165, 165, 90, 90, vb2, 192, 2, 0, 3, 0, 0, smask, v0e>>)

\* a faulty SetPowerMulti, which counts relays from 0
MultiMask_ZeroBased(no) == (2 ^ no) % 256

\* SetPowerMulti's mask: uint8(0x01 << (uint(no) - 1)), zero once the bit
\* leaves the byte
MultiMask(no) == IF no \in 1..8 THEN 2 ^ (no - 1) ELSE 0

\* QueryPowerRaw's payload
QueryPowerRawPayload ==
    CopyAt(Zeros(16), 0, <<10, 0, 165, 165, 90, 90, 174, 192, 1>>)

\* Auth's payload: 0x50 bytes, a flag at 0x2d and the host name at 0x30
AuthPayload(hostname) ==
    CopyAt(CopyAt(Zeros(80), 45, <<1>>), 48, hostname)

\* os.Hostname() of the machine the client runs on
Hostname == <<104, 111, 115, 116>>

----------------------------------------------------------------------------
(* The inputs of the model: the operations a caller invokes and the          *)
(* datagrams the network delivers                                            *)

\* model codes a device is created with: an SP2, an MP1 and an unknown one
ModelTypes == {10001, 20149, 4660}

\* the MAC address a device is created with
ModelMac == <<52, 234, 52, 1, 2, 3>>

ModelMasks == {5}

ModelIndexes == {3}

Op(name, onstate, smask, no) ==
    [name |-> name, onstate |-> onstate, smask |-> smask, no |-> no]

NoOp == Op("", FALSE, 0, 0)

\* the methods of BroadlinkDevice a caller reaches through GetDevice() and
\* calls on their own: RawSendPacket(0x6a, nil), SendPacket(0x6a, payload)
\* with QueryPower's payload, and RecvResponse(1)
DeviceOps ==
    {Op("RawSendPacket", FALSE, 0, 0), Op("SendPacket", FALSE, 0, 0),
     Op("RecvResponse", FALSE, 0, 0)}

Ops ==
    {Op("Auth", FALSE, 0, 0), Op("QueryPower", FALSE, 0, 0),
     Op("QueryPowerRaw", FALSE, 0, 0), Op("SetPower", TRUE, 0, 0)}
    \cup {Op("SetPowerMask", TRUE, m, 0) : m \in ModelMasks}
    \cup {Op("SetPowerMulti", FALSE, 0, no) : no \in ModelIndexes}
    \cup DeviceOps

\* the identifier and the session key the device under test hands out
AuthIdBytes == <<4, 3, 2, 1>>

AuthKey ==
    <<17, 34, 51, 68, 85, 102, 119, 136, 153, 170, 187, 204, 221, 238, 255, 16>>

\* a frame with its checksum field filled in, as a device sends it
WithChecksum(frame) ==
    PutUint16LE(frame, ChecksumPos,
                calcChecksum(PutUint16LE(frame, ChecksumPos, 0)))

\* the header of a reply of type respType carrying error code errCode
ReplyHeader(respType, errCode) ==
    PutUint16LE(PutUint16LE(
        CopyAt(Zeros(HeaderLen), 0, <<90, 165, 170, 85, 90, 165, 170, 85, 0>>),
        34, errCode), 38, respType)

\* the authentication reply: identifier, then key, under the default key
AuthReply ==
    WithChecksum(ReplyHeader(AuthResponseType, 0)
        \o CBCEncrypt(DefaultKey, DefaultIv, AuthIdBytes \o AuthKey \o Zeros(12)))

\* a command reply (type 0x3ee) under the session key: power on, relays 1 and 3
PowerReply ==
    WithChecksum(ReplyHeader(1006, 0)
        \o CBCEncrypt(AuthKey, DefaultIv,
                      <<1, 0, 0, 0, 1, 0, 0, 0, 0, 0, 0, 0, 0, 0, 5, 0>>))

\* a command reply whose header carries error code 0xfff9 and no payload
ErrorReply == WithChecksum(ReplyHeader(1006, 65529))

\* PowerReply with one bit of its checksum field flipped in transit
CorruptReply ==
    CopyAt(PowerReply, ChecksumPos, <<Xor(PowerReply[ChecksumPos + 1], 1)>>)

\* an authentication reply cut to 0x30 bytes, checksum-valid as it stands
ShortAuthReply ==
    WithChecksum(Slice(ReplyHeader(AuthResponseType, 0), 0, 48))

\* an authentication reply whose payload is a single block: the identifier
\* and only 12 bytes of key
OneBlockAuthReply ==
    WithChecksum(ReplyHeader(AuthResponseType, 0)
        \o CBCEncrypt(DefaultKey, DefaultIv, AuthIdBytes \o Slice(AuthKey, 0, 12)))

Datagrams ==
    {AuthReply, PowerReply, ErrorReply, CorruptReply, ShortAuthReply,
     OneBlockAuthReply}

----------------------------------------------------------------------------
(* encrypt, decrypt and the listener's verdict on the arguments the model    *)
(* meets, tabulated once; any other argument is computed on the spot         *)

CommandPayloads ==
    {AuthPayload(Hostname), QueryPowerPayload, QueryPowerRawPayload}
    \cup {SetPowerPayload(TRUE)}
    \cup {SetPowerMaskPayload(m, TRUE) : m \in ModelMasks}
    \cup {SetPowerMaskPayload(MultiMask(no), FALSE) : no \in ModelIndexes}

\* table[k] where the table has it, and v otherwise
MemoOr(table, k, v) == IF k \in DOMAIN table THEN table[k] ELSE v

EncryptTable ==
    [a \in {DefaultKey, AuthKey} \X {DefaultIv}
           \X {padding(p, BlockSize) : p \in CommandPayloads}
        |-> encrypt(a[1], a[2], a[3])] @@ <<>>

encryptMemo(key, iv, text) ==
    MemoOr(EncryptTable, <<key, iv, text>>, encrypt(key, iv, text))

DecryptTable ==
    [a \in {DefaultKey, AuthKey} \X {DefaultIv}
           \X {Slice(d, HeaderLen, Len(d)) : d \in {e \in Datagrams : Len(e) >= HeaderLen}}
        |-> decrypt(a[1], a[2], a[3])] @@ <<>>

decryptMemo(key, iv, encText) ==
    MemoOr(DecryptTable, <<key, iv, encText>>, decrypt(key, iv, encText))

BufSize == 2048

\* udpListener's buffer after ReadFrom stored datagram d in it: fresh zeros
\* behind the bytes read
ReadBuf(d) == CopyAt(Zeros(BufSize), 0, d)

\* count, as ReadFrom returns it
ReadCount(d) == IF Len(d) < BufSize THEN Len(d) ELSE BufSize

\* udpListener from the read to the send, for datagram d: whether the frame
\* is kept, and the copy that is queued
ListenerRead(d, checked) ==
    [keep |-> checked.ok, response |-> Slice(checked.payload, 0, ReadCount(d))]

ListenerTable ==
    [d \in Datagrams |->
        ListenerRead(d, checkChecksum(ReadBuf(d), ChecksumPos))] @@ <<>>

----------------------------------------------------------------------------
(* RawSendPacket                                                             *)

\* the packet with the checksum of all its bytes stored at 0x20
SetChecksum(packet) == PutUint16LE(packet, ChecksumPos, calcChecksum(packet))

\* a faulty RawSendPacket, which stores at 0x34 the checksum of the encrypted
\* payload
Packet_ChecksumOfCiphertext(d, command, payload) ==
    LET header == PutUint32LE(CopyAt(PutUint16LE(PutUint16LE(PutUint16LE(
                      CopyAt(Zeros(HeaderLen), 0,
                             <<90, 165, 170, 85, 90, 165, 170, 85, 0>>),
                      36, d.DevType), 38, command), 40, d.SendCount),
                      42, d.HwMac), 48, d.DevID)
        encrypted == encryptMemo(d.encKey, d.encIv,
                                 padding(payload, BlockSize)).data
    IN  SetChecksum(IF Len(payload) > 0
                    THEN PutUint16LE(header, 52, calcChecksum(encrypted))
                         \o encrypted
                    ELSE header)

\* the packet RawSendPacket builds for device d, d.SendCount already
\* incremented; a nil payload is the empty sequence.  The error of encrypt is
\* dropped; d.encKey and d.encIv are those of initVars or of Auth, 16 bytes
\* each, so that encrypt returns.
Packet(d, command, payload) ==
    LET header == PutUint32LE(CopyAt(PutUint16LE(PutUint16LE(PutUint16LE(
                      CopyAt(Zeros(HeaderLen), 0,
                             <<90, 165, 170, 85, 90, 165, 170, 85, 0>>),
                      36, d.DevType), 38, command), 40, d.SendCount),
                      42, d.HwMac), 48, d.DevID)
        padded == padding(payload, BlockSize)
    IN  SetChecksum(IF Len(payload) > 0
                    THEN PutUint16LE(header, 52, calcChecksum(padded))
                         \o encryptMemo(d.encKey, d.encIv, padded).data
                    ELSE header)

\* a faulty RawSendPacket, which never leaves the default key and identifier
RawSendPacket_StaleKey(d, command, payload, writeFails) ==
    LET sent == [d EXCEPT !.SendCount = (d.SendCount + 1) % 65536]
    IN  [dev     |-> sent,
         packet  |-> Packet([sent EXCEPT !.encKey = DefaultKey,
                                         !.DevID = Uint32Zero],
                            command, payload),
         written |-> d.CS = "open" /\ ~writeFails,
         panic   |-> d.CS = "nil",
         ok      |-> d.CS # "nil",
         err     |-> ""]

\* a faulty RawSendPacket, which does not count the frame
RawSendPacket_KeepsCount(d, command, payload, writeFails) ==
    [dev     |-> d,
     packet  |-> Packet(d, command, payload),
     written |-> d.CS = "open" /\ ~writeFails,
     panic   |-> d.CS = "nil",
     ok      |-> d.CS # "nil",
     err     |-> ""]

\* RawSendPacket(command, payload) on device d; writeFails is what WriteToUDP
\* meets on an open socket.  The counter is incremented and the packet built
\* first.  On a nil dev.CS, WriteToUDP dereferences the nil *net.UDPConn and
\* the call panics instead of returning.  On an open socket the packet reaches
\* the wire unless the write fails, and the result is (true, nil) either way.
RawSendPacket(d, command, payload, writeFails) ==
    LET sent == [d EXCEPT !.SendCount = (d.SendCount + 1) % 65536]
    IN  [dev     |-> sent,
         packet  |-> Packet(sent, command, payload),
         written |-> d.CS = "open" /\ ~writeFails,
         panic   |-> d.CS = "nil",
         ok      |-> d.CS # "nil",
         err     |-> ""]

----------------------------------------------------------------------------
(* What the operations do with the frame their wait returns                  *)

\* the result of a call: the two return values (ok and value stand for the
\* first, err and code for the error), whether the call panicked instead, and
\* the frame its wait returned (<<>> if none)
Result(okv, value, err, code, panic) ==
    [ok |-> okv, value |-> value, err |-> err, code |-> code, panic |-> panic]

Panic == Result(FALSE, 0, "", 0, TRUE)

\* SetPower and SetPowerMask once SendPacket returned resp: the reply is not
\* looked at
SetPowerReply(resp) == Result(TRUE, 0, "", 0, FALSE)

\* QueryPower and QueryPowerRaw from the result dec of decrypt on: its error
\* is returned; dpayload is <<>> where the operation ends without one
QueryPayload(dec) ==
    IF dec.panic THEN [res |-> Panic, dpayload |-> <<>>]
    ELSE IF dec.err # ""
    THEN [res |-> Result(FALSE, 0, dec.err, 0, FALSE), dpayload |-> <<>>]
    ELSE [res |-> Result(TRUE, 0, "", 0, FALSE), dpayload |-> dec.data]

\* QueryPower and QueryPowerRaw once SendPacket returned resp, up to the
\* decrypted payload: resp[0x22:] and resp[0x38:] panic on a frame that ends
\* before them
QueryReply(d, resp) ==
    IF Len(resp) < 36 THEN [res |-> Panic, dpayload |-> <<>>]
    ELSE IF Uint16LE(resp, 34) # 0
    THEN [res |-> Result(FALSE, 0, "Response", Uint16LE(resp, 34), FALSE),
          dpayload |-> <<>>]
    ELSE IF Len(resp) < HeaderLen THEN [res |-> Panic, dpayload |-> <<>>]
    ELSE QueryPayload(decryptMemo(d.encKey, d.encIv,
                                  Slice(resp, HeaderLen, Len(resp))))

\* QueryPower on the decrypted payload: on for status 1, 3 or 0xfd
PowerState(q) ==
    IF q.dpayload = <<>> THEN q.res
    ELSE Result(q.dpayload[5] \in {1, 3, 253},
                IF q.dpayload[5] \in {1, 3, 253} THEN 1 ELSE 0, "", 0, FALSE)

\* QueryPowerRaw on the decrypted payload: the byte at 0x0e
PowerRaw(q) ==
    IF q.dpayload = <<>> THEN q.res
    ELSE Result(q.dpayload[15] # 0, q.dpayload[15], "", 0, FALSE)

\* a faulty Auth, which takes the key from the start of the payload
AuthKeys_KeyAtZero(d, dec) ==
    IF dec.panic \/ Len(dec.data) < 20
    THEN [dev |-> d, res |-> Panic]
    ELSE [dev |-> [d EXCEPT !.DevID = Uint32LE(dec.data, 0),
                            !.encKey = Slice(dec.data, 0, 16)],
          res |-> Result(TRUE, 0, "", 0, FALSE)]

\* Auth from the result dec of decrypt on, its error dropped: a payload
\* shorter than a block leaves decrypted nil and Uint32 panics;
\* decrypted[0x04:0x14] panics on a single block, after DevID is assigned
AuthKeys(d, dec) ==
    IF dec.panic \/ Len(dec.data) < 4
    THEN [dev |-> d, res |-> Panic]
    ELSE IF Len(dec.data) < 20
    THEN [dev |-> [d EXCEPT !.DevID = Uint32LE(dec.data, 0)], res |-> Panic]
    ELSE [dev |-> [d EXCEPT !.DevID = Uint32LE(dec.data, 0),
                            !.encKey = Slice(dec.data, 4, 20)],
          res |-> Result(TRUE, 0, "", 0, FALSE)]

\* Auth once wait4Response returned resp: the device afterwards and the
\* result; a frame shorter than 0x38 is taken as a success
AuthFinish(d, resp) ==
    IF Len(resp) < HeaderLen
    THEN [dev |-> d, res |-> Result(TRUE, 0, "", 0, FALSE)]
    ELSE AuthKeys(d, decryptMemo(d.encKey, d.encIv,
                                 Slice(resp, HeaderLen, Len(resp))))

\* a faulty dispatch, which sends every operation whatever the family
Supported_All(fam, name) == TRUE

\* the operations a device of family fam implements itself; every other power
\* operation is the base device's, which answers "Not supported".  Auth,
\* RawSendPacket, SendPacket and RecvResponse are the base device's own.
Supported(fam, name) ==
    \/ name \in {"Auth", "RawSendPacket", "SendPacket", "RecvResponse"}
    \/ fam = "sp2" /\ name \in {"SetPower", "QueryPower"}
    \/ fam = "mp1" /\ name \in {"SetPowerMask", "SetPowerMulti", "QueryPowerRaw"}

\* the command and the payload operation op sends
Request(op) ==
    CASE op.name = "Auth" ->
            [command |-> CmdAuth, payload |-> AuthPayload(Hostname)]
      [] op.name = "SetPower" ->
            [command |-> CmdEnvelope, payload |-> SetPowerPayload(op.onstate)]
      [] op.name = "QueryPower" ->
            [command |-> CmdEnvelope, payload |-> QueryPowerPayload]
      [] op.name = "SetPowerMask" ->
            [command |-> CmdEnvelope,
             payload |-> SetPowerMaskPayload(op.smask, op.onstate)]
      [] op.name = "SetPowerMulti" ->
            [command |-> CmdEnvelope,
             payload |-> SetPowerMaskPayload(MultiMask(op.no), op.onstate)]
      [] op.name = "QueryPowerRaw" ->
            [command |-> CmdEnvelope, payload |-> QueryPowerRawPayload]
      [] op.name = "RawSendPacket" ->
            [command |-> CmdEnvelope, payload |-> <<>>]
      [] op.name = "SendPacket" ->
            [command |-> CmdEnvelope, payload |-> QueryPowerPayload]

\* QueryPower or QueryPowerRaw on the decrypted payload
QueryResult(name, q) == IF name = "QueryPower" THEN PowerState(q) ELSE PowerRaw(q)

\* what operation op returns once SendPacket returned resp: SetPower and
\* SetPowerMask do not look at the reply; SendPacket and RecvResponse called
\* on their own return the frame as it is, with a nil error
Reply(d, op, resp) ==
    IF op.name \in {"QueryPower", "QueryPowerRaw"}
    THEN QueryResult(op.name, QueryReply(d, resp))
    ELSE SetPowerReply(resp)

----------------------------------------------------------------------------
(* The client: one device, its listener goroutine and one calling goroutine  *)

\* capacity of the responses channel (1000 in initVars)
QueueCap == 2
\* datagrams the socket delivers in a run
MaxRecv == 3
\* operations the caller starts in a run
MaxCalls == 2
\* datagrams and operations together in a run
MaxEvents == 4
\* clock steps per default timeout
TimeResolution == 1

TickStep == (DefaultTimeout + TimeResolution - 1) \div TimeResolution

VARIABLES
    dev,        \* the BroadlinkDevice
    responses,  \* the frames in dev.responses, oldest first
    tags,       \* for each queued frame, whether it was read after a timeout
    listener,   \* udpListener: where it is, the response it holds, and the
                \* datagram it dropped last
    caller,     \* the calling goroutine: where it is in SendPacket,
                \* RecvResponse or Auth, whether WriteToUDP put its frame on
                \* the wire, and whether its wait has sent a frame back
    clock,      \* seconds since the caller's wait began
    ret,        \* what the last finished call returned
    closed,     \* Close has closed the socket
    nRecv,      \* datagrams read so far
    nCalls,     \* calls started so far
    wire,       \* the last frame built and passed to WriteToUDP
    pre,        \* DevID, encKey and SendCount when the current call started
    pending,    \* the frames queued and not returned yet, as a bag
    probe       \* a function applied on its own: its arguments and its result

vars == <<dev, responses, tags, listener, caller, clock, ret, closed, nRecv,
          nCalls, wire, pre, pending, probe>>

Idle == [pc |-> "idle", op |-> NoOp, expectedType |-> 0, timeout |-> 0,
         startTime |-> 0, timer |-> 0, buf |-> <<>>, late |-> FALSE,
         written |-> FALSE, pushed |-> FALSE]

\* the calling goroutine has panicked.  Whether the process survives is the
\* application's affair (it may recover); the listener may run on.
Crashed == [Idle EXCEPT !.pc = "panic"]

NoRet == [call |-> 0, op |-> NoOp, res |-> Result(FALSE, 0, "", 0, FALSE),
          resp |-> <<>>, late |-> FALSE, pushed |-> FALSE]

TimeoutErrors == {"Timeout", "Check time"}

\* nothing has been applied on its own
NoProbe == [fn |-> ""]

\* nothing is queued, no call has been made, and the listener is in ReadFrom
Quiet ==
    /\ responses = <<>>
    /\ tags = <<>>
    /\ listener = [pc |-> "read", response |-> <<>>, late |-> FALSE,
                  dropped |-> <<>>]
    /\ caller = Idle
    /\ clock = 0
    /\ ret = NoRet
    /\ closed = FALSE
    /\ nRecv = 0
    /\ nCalls = 0
    /\ wire = [call |-> 0, packet |-> <<>>, afterClose |-> FALSE]
    /\ pre = [DevID |-> dev.DevID, encKey |-> dev.encKey,
              SendCount |-> dev.SendCount]
    /\ pending = EmptyBag
    /\ probe = NoProbe

Init ==
    /\ \E iType \in ModelTypes, cs \in {"open", "nil"} :
          dev = NewBroadlinkDirectDevice(iType, ModelMac, cs)
    /\ Quiet

\* the sequence counter of a new device, and of one that has sent 65535
\* frames and received every reply
WrapCounts == {0, 65535}

WrapInit ==
    /\ \E iType \in ModelTypes, cs \in {"open", "nil"}, n \in WrapCounts :
          dev = [NewBroadlinkDirectDevice(iType, ModelMac, cs)
                    EXCEPT !.SendCount = n]
    /\ Quiet

\* the process runs: the panic of udpListener, a goroutine with no recover,
\* ends it and every goroutine with it
Running == listener.pc # "panic"

(* udpListener *)

\* udpListener after the check of datagram d
Received(d, verdict) ==
    IF verdict.keep
    THEN [pc |-> "send", response |-> verdict.response,
          late |-> caller.pc = "idle" /\ ret.res.err \in TimeoutErrors,
          dropped |-> <<>>]
    ELSE [pc |-> "read", response |-> <<>>, late |-> FALSE, dropped |-> d]

\* ReadFrom returns datagram d: a frame that passes checkChecksum is copied,
\* to be sent to dev.responses; any other is dropped
LRead(d) ==
    /\ Running
    /\ listener.pc = "read"
    /\ dev.CS = "open"
    /\ nRecv < MaxRecv
    /\ nRecv + nCalls < MaxEvents
    /\ nRecv' = nRecv + 1
    /\ listener' = Received(d, ListenerTable[d])
    /\ UNCHANGED <<dev, responses, tags, caller, clock, ret, closed, probe, nCalls,
                   wire, pre, pending>>

\* ReadFrom returns an error with count > 0: continue
LReadError ==
    /\ Running
    /\ listener.pc = "read"
    /\ dev.CS = "open"
    /\ UNCHANGED vars

\* ReadFrom on the open socket returns an error with count 0: break
LReadFail ==
    /\ Running
    /\ listener.pc = "read"
    /\ dev.CS = "open"
    /\ listener' = [listener EXCEPT !.pc = "done"]
    /\ UNCHANGED <<dev, responses, tags, caller, clock, ret, closed, probe, nRecv,
                   nCalls, wire, pre, pending>>

\* ReadFrom on the socket Close has closed returns an error with count 0:
\* break.  The listener was blocked in ReadFrom, or its unsynchronised read
\* of dev.CS gave the pointer of before Close.
LReadClosed ==
    /\ Running
    /\ listener.pc = "read"
    /\ dev.CS = "nil"
    /\ closed
    /\ listener' = [listener EXCEPT !.pc = "done"]
    /\ UNCHANGED <<dev, responses, tags, caller, clock, ret, closed, probe, nRecv,
                   nCalls, wire, pre, pending>>

\* dev.CS.ReadFrom with dev.CS read as nil (net.ListenUDP had failed, or the
\* listener reads dev.CS after Close has set it to nil): the nil *net.UDPConn
\* is dereferenced, the goroutine panics and the process ends
LReadNil ==
    /\ Running
    /\ listener.pc = "read"
    /\ dev.CS = "nil"
    /\ listener' = [listener EXCEPT !.pc = "panic"]
    /\ UNCHANGED <<dev, responses, tags, caller, clock, ret, closed, probe, nRecv,
                   nCalls, wire, pre, pending>>

\* dev.responses <- response, which blocks while the channel is full
LSend ==
    /\ Running
    /\ listener.pc = "send"
    /\ Len(responses) < QueueCap
    /\ responses' = Append(responses, listener.response)
    /\ tags' = Append(tags, listener.late)
    /\ pending' = pending (+) SetToBag({listener.response})
    /\ listener' = [listener EXCEPT !.pc = "read", !.response = <<>>,
                                    !.late = FALSE]
    /\ UNCHANGED <<dev, caller, clock, ret, closed, probe, nRecv, nCalls, wire, pre>>

(* the calling goroutine *)

\* a faulty wait4Response, which forgets the frame it does not want
PushBack_Drop(q, buf) == q

\* the frames in the channel after buf is sent to it
PushBack(q, buf) == Append(q, buf)

Returned(res, resp, late) ==
    [call |-> nCalls, op |-> caller.op, res |-> res, resp |-> resp,
     late |-> late, pushed |-> caller.pushed]

\* the caller of op in its wait: Auth in wait4Response, the others in
\* RecvResponse; written is whether its frame reached the wire
InWait(op, written) ==
    IF op.name = "Auth"
    THEN [pc |-> "wait4", op |-> op, expectedType |-> AuthResponseType,
          timeout |-> dev.TimeoutDefault, startTime |-> dev.TimeoutDefault,
          timer |-> 0, buf |-> <<>>, late |-> FALSE,
          written |-> written, pushed |-> FALSE]
    ELSE [pc |-> "recv", op |-> op, expectedType |-> 0,
          timeout |-> SendPacketTimeout, startTime |-> SendPacketTimeout,
          timer |-> 0, buf |-> <<>>, late |-> FALSE,
          written |-> written, pushed |-> FALSE]

\* the call of op ends before any wait, with result res
Ended(op, res) ==
    [call |-> nCalls + 1, op |-> op, res |-> res, resp |-> <<>>,
     late |-> FALSE, pushed |-> FALSE]

\* the call of op has run RawSendPacket, and sent is what became of it: the
\* counter is incremented and the packet built; then the call panics in
\* WriteToUDP on a nil socket, or RawSendPacket returns (true, nil) whatever
\* WriteToUDP returned.  RawSendPacket called on its own ends there; the
\* others wait: Auth in wait4Response, the rest, through SendPacket, in
\* RecvResponse.
Sent(op, sent) ==
    /\ dev' = sent.dev
    /\ wire' = [call |-> nCalls + 1, packet |-> sent.packet,
                afterClose |-> closed]
    /\ IF sent.panic
       THEN /\ caller' = Crashed
            /\ ret' = Ended(op, Panic)
            /\ clock' = clock
       ELSE IF op.name = "RawSendPacket"
       THEN /\ caller' = caller
            /\ ret' = Ended(op, Result(sent.ok, 0, sent.err, 0, FALSE))
            /\ clock' = clock
       ELSE /\ caller' = InWait(op, sent.written)
            /\ ret' = NoRet
            /\ clock' = 0

\* the caller starts operation op; writeFails is whether WriteToUDP on an
\* open socket returns an error.  A method the device's family lacks returns
\* "Not supported" at once; RecvResponse called on its own sends nothing and
\* waits.
Call(op, writeFails) ==
    /\ Running
    /\ caller.pc = "idle"
    /\ nCalls < MaxCalls
    /\ nRecv + nCalls < MaxEvents
    /\ nCalls' = nCalls + 1
    /\ pre' = [DevID |-> dev.DevID, encKey |-> dev.encKey,
               SendCount |-> dev.SendCount]
    /\ IF ~Supported(Family(dev.DevType), op.name)
       THEN /\ ret' = Ended(op, Result(FALSE, 0, "Not supported", 0, FALSE))
            /\ UNCHANGED <<dev, caller, clock, wire>>
       ELSE IF op.name = "RecvResponse"
       THEN /\ caller' = InWait(op, FALSE)
            /\ ret' = NoRet
            /\ clock' = 0
            /\ UNCHANGED <<dev, wire>>
       ELSE Sent(op, RawSendPacket(dev, Request(op).command,
                                   Request(op).payload, writeFails))
    /\ UNCHANGED <<responses, tags, listener, closed, probe, nRecv, pending>>

\* the call ends with result res on the frame buf it took from the channel
Finish(res, buf) ==
    /\ ret' = Returned(res, buf, Head(tags))
    /\ caller' = IF res.panic THEN Crashed ELSE Idle
    /\ pending' = pending (-) SetToBag({buf})
    /\ responses' = Tail(responses)
    /\ tags' = Tail(tags)

\* a faulty RecvResponse, which takes the newest frame of the channel
RecvPop_Newest ==
    /\ Running
    /\ caller.pc = "recv"
    /\ responses # <<>>
    /\ LET last == Len(responses)
           res  == Reply(dev, caller.op, responses[last])
       IN  /\ ret' = Returned(res, responses[last], tags[last])
           /\ caller' = IF res.panic THEN Crashed ELSE Idle
           /\ pending' = pending (-) SetToBag({responses[last]})
           /\ responses' = SubSeq(responses, 1, last - 1)
           /\ tags' = SubSeq(tags, 1, last - 1)
    /\ UNCHANGED <<dev, listener, clock, closed, probe, nRecv, nCalls, wire, pre>>

\* RecvResponse receives from dev.responses; SendPacket returns the frame and
\* the operation finishes with it
RecvPop ==
    /\ Running
    /\ caller.pc = "recv"
    /\ responses # <<>>
    /\ Finish(Reply(dev, caller.op, Head(responses)), Head(responses))
    /\ UNCHANGED <<dev, listener, clock, closed, probe, nRecv, nCalls, wire, pre>>

\* RecvResponse's timer fires on a caller blocked in the select, the channel
\* empty: "Timeout", which the operation returns
RecvTimeout ==
    /\ Running
    /\ caller.pc = "recv"
    /\ responses = <<>>
    /\ clock >= caller.timer + caller.timeout
    /\ ret' = Returned(Result(FALSE, 0, "Timeout", 0, FALSE), <<>>, FALSE)
    /\ caller' = Idle
    /\ UNCHANGED <<dev, responses, tags, listener, clock, closed, probe, nRecv, nCalls,
                   wire, pre, pending>>

\* Auth ends on the frame buf that wait4Response returned
AuthReturn(fin, buf) ==
    /\ dev' = fin.dev
    /\ Finish(fin.res, buf)

\* wait4Response receives buf from dev.responses: buf[0x26:0x28] panics on a
\* frame that ends before it; a frame of the expected type is returned, and
\* Auth finishes with it; any other is to be sent back
W4Pop ==
    /\ Running
    /\ caller.pc = "wait4"
    /\ responses # <<>>
    /\ LET buf == Head(responses)
       IN  IF Len(buf) < 40
           THEN /\ Finish(Panic, buf)
                /\ dev' = dev
           ELSE IF Uint16LE(buf, 38) = caller.expectedType
           THEN AuthReturn(AuthFinish(dev, buf), buf)
           ELSE /\ caller' = [caller EXCEPT !.pc = "pushback", !.buf = buf,
                                            !.late = Head(tags)]
                /\ responses' = Tail(responses)
                /\ tags' = Tail(tags)
                /\ UNCHANGED <<dev, ret, pending>>
    /\ UNCHANGED <<listener, clock, closed, probe, nRecv, nCalls, wire, pre>>

\* wait4Response sends the frame back (dev.responses <- buf blocks while the
\* channel is full), then returns "Check time" at or after startTime, or
\* selects again with a new timer
W4PushBack ==
    /\ Running
    /\ caller.pc = "pushback"
    /\ Len(responses) < QueueCap
    /\ responses' = PushBack(responses, caller.buf)
    /\ tags' = Append(tags, caller.late)
    /\ IF clock >= caller.startTime
       THEN /\ ret' = Returned(Result(FALSE, 0, "Check time", 0, FALSE), <<>>, FALSE)
            /\ caller' = Idle
       ELSE /\ caller' = [caller EXCEPT !.pc = "wait4", !.buf = <<>>,
                                        !.late = FALSE, !.timer = clock,
                                        !.pushed = TRUE]
            /\ ret' = ret
    /\ UNCHANGED <<dev, listener, clock, closed, probe, nRecv, nCalls, wire, pre, pending>>

\* wait4Response's timer fires on a caller blocked in the select, the channel
\* empty: "Timeout", which Auth returns
W4Timeout ==
    /\ Running
    /\ caller.pc = "wait4"
    /\ responses = <<>>
    /\ clock >= caller.timer + caller.timeout
    /\ ret' = Returned(Result(FALSE, 0, "Timeout", 0, FALSE), <<>>, FALSE)
    /\ caller' = Idle
    /\ UNCHANGED <<dev, responses, tags, listener, clock, closed, probe, nRecv, nCalls,
                   wire, pre, pending>>

\* time passes while the caller is blocked in a select, the channel empty (a
\* select that can receive does so at once: its timer has only been made),
\* or while wait4Response sends a frame back
Tick ==
    /\ Running
    /\ \/ /\ caller.pc \in {"recv", "wait4"}
          /\ responses = <<>>
          /\ clock < caller.timer + caller.timeout
       \/ caller.pc = "pushback" /\ clock < caller.startTime
    /\ clock' = clock + TickStep
    /\ UNCHANGED <<dev, responses, tags, listener, caller, ret, closed, probe, nRecv,
                   nCalls, wire, pre, pending>>

\* Close: closes the socket if there is one and sets dev.CS to nil; on a nil
\* dev.CS it does nothing
Close ==
    /\ Running
    /\ caller.pc = "idle"
    /\ IF dev.CS # "nil"
       THEN /\ closed' = TRUE
            /\ dev' = [dev EXCEPT !.CS = "nil"]
       ELSE UNCHANGED <<closed, dev>>
    /\ UNCHANGED <<responses, tags, listener, caller, clock, ret, nRecv, nCalls, probe,
                   wire, pre, pending>>

ListenerStep == LReadClosed \/ LReadNil \/ LSend

CallerStep == RecvPop \/ RecvTimeout \/ W4Pop \/ W4PushBack \/ W4Timeout

Next ==
    \/ \E d \in Datagrams : LRead(d)
    \/ LReadError
    \/ LReadFail
    \/ LReadClosed
    \/ LReadNil
    \/ LSend
    \/ \E op \in Ops, writeFails \in BOOLEAN : Call(op, writeFails)
    \/ RecvPop
    \/ RecvTimeout
    \/ W4Pop
    \/ W4PushBack
    \/ W4Timeout
    \/ Tick
    \/ Close

Spec == Init /\ [][Next]_vars

\* the same client, from a device that may be one frame from the wrap of its
\* sequence counter
WrapSpec == WrapInit /\ [][Next]_vars

\* the scheduler runs a goroutine that can run, and time passes: also for a
\* caller that keeps receiving and sending back the same frame, in which the
\* clock can advance only between the two
FairSpec ==
    Spec /\ SF_vars(Tick) /\ WF_vars(CallerStep) /\ WF_vars(ListenerStep)

----------------------------------------------------------------------------
(* The functions of the package applied on their own, one application per    *)
(* run: probe holds the arguments and what the function returned             *)

mainVars == <<dev, responses, tags, listener, caller, clock, ret, closed,
              nRecv, nCalls, wire, pre, pending>>

\* plaintexts: empty, shorter than a block, one byte short of a block, a
\* block, one byte more, two blocks, and the payloads of the operations
ProbePlaintexts ==
    {<<>>, <<7>>, [i \in 1..15 |-> i] \o <<>>, [i \in 1..16 |-> 255] \o <<>>,
     [i \in 1..17 |-> 15 * i] \o <<>>, [i \in 1..32 |-> 8 * i - 1] \o <<>>}
    \cup {QueryPowerPayload, SetPowerMaskPayload(5, TRUE), AuthPayload(Hostname)}

\* devices as RawSendPacket meets them: new, about to wrap its counter,
\* authenticated, and without a socket
ProbeDevices ==
    LET fresh == NewBroadlinkDirectDevice(10001, ModelMac, "open")
    IN  {fresh, [fresh EXCEPT !.SendCount = 65535],
         [fresh EXCEPT !.DevID = AuthIdBytes, !.encKey = AuthKey,
                       !.SendCount = 7],
         [fresh EXCEPT !.CS = "nil"]}

\* buffers checkChecksum is applied to: the datagrams as they arrive, bare
\* and in the listener's buffer, buffers of the least length it can read, and
\* one a byte shorter
ProbeBuffers ==
    Datagrams \cup {ReadBuf(d) : d \in Datagrams}
    \cup {Zeros(33), Zeros(34), [i \in 1..34 |-> 255] \o <<>>,
          WithChecksum([i \in 1..34 |-> 255] \o <<>>),
          WithChecksum([i \in 1..35 |-> 3 * i] \o <<>>)}

ProbeInit ==
    /\ Init
    /\ dev.DevType = 10001
    /\ dev.CS = "open"

\* checkChecksum(buf, 0x20)
ProbeCheckChecksum(buf) ==
    /\ probe = NoProbe
    /\ probe' = [fn |-> "checkChecksum", buf |-> buf,
                 out |-> checkChecksum(buf, ChecksumPos)]
    /\ UNCHANGED mainVars

\* RawSendPacket(command, payload) on device d, and checkChecksum on the
\* frame it built
ProbeSend(d, command, payload, sent) ==
    /\ probe = NoProbe
    /\ probe' = [fn |-> "RawSendPacket", dev |-> d, command |-> command,
                 payload |-> payload, out |-> sent,
                 checked |-> checkChecksum(sent.packet, ChecksumPos)]
    /\ UNCHANGED mainVars

ProbeRawSendPacket(d, command, payload) ==
    ProbeSend(d, command, payload, RawSendPacket(d, command, payload, FALSE))

\* encrypt(key, iv, text), then decrypt(key, iv, ...) on what it returned
ProbeDecrypt(key, iv, text, enc) ==
    /\ probe = NoProbe
    /\ probe' = [fn |-> "encrypt", key |-> key, iv |-> iv, text |-> text,
                 enc |-> enc, dec |-> decrypt(key, iv, enc.data)]
    /\ UNCHANGED mainVars

ProbeEncrypt(key, iv, text) ==
    ProbeDecrypt(key, iv, text, encrypt(key, iv, text))

\* the payload SetPowerMask(smask, onstate) builds
ProbeSetPowerMask(smask, onstate) ==
    /\ probe = NoProbe
    /\ probe' = [fn |-> "SetPowerMask", smask |-> smask, onstate |-> onstate,
                 out |-> Request(Op("SetPowerMask", onstate, smask, 0))]
    /\ UNCHANGED mainVars

\* the request SetPowerMulti(no, onstate) sends
ProbeSetPowerMulti(no, onstate) ==
    /\ probe = NoProbe
    /\ probe' = [fn |-> "SetPowerMulti", no |-> no, onstate |-> onstate,
                 out |-> Request(Op("SetPowerMulti", onstate, 0, no))]
    /\ UNCHANGED mainVars

ProbeNext ==
    \/ \E buf \in ProbeBuffers : ProbeCheckChecksum(buf)
    \/ \E d \in ProbeDevices, command \in {CmdAuth, CmdEnvelope},
          payload \in ProbePlaintexts : ProbeRawSendPacket(d, command, payload)
    \/ \E key \in {DefaultKey, AuthKey}, text \in ProbePlaintexts :
          ProbeEncrypt(key, DefaultIv, text)
    \/ \E smask \in 0..255, onstate \in BOOLEAN :
          ProbeSetPowerMask(smask, onstate)
    \/ \E no \in 1..8, onstate \in BOOLEAN : ProbeSetPowerMulti(no, onstate)

ProbeSpec == ProbeInit /\ [][ProbeNext]_vars

TypeOK ==
    /\ Len(responses) <= QueueCap
    /\ Len(tags) = Len(responses)
    /\ listener.pc \in {"read", "send", "done", "panic"}
    /\ caller.pc \in {"idle", "recv", "wait4", "pushback", "panic"}
    /\ nRecv <= MaxRecv
    /\ nCalls <= MaxCalls

----------------------------------------------------------------------------
(* Properties                                                                *)

\* the checksum a frame stores, and the one recomputed with the field zeroed
StoredChecksum(f) == Uint16LE(f, ChecksumPos)

RecomputedChecksum(f) == calcChecksum(PutUint16LE(f, ChecksumPos, 0))

\* the datagrams whose stored checksum is the recomputed one
ValidDatagrams == {d \in Datagrams : StoredChecksum(d) = RecomputedChecksum(d)}

\* the frames of queue q as a bag
BagOf(q) ==
    [f \in {q[i] : i \in DOMAIN q} |-> Cardinality({i \in DOMAIN q : q[i] = f})]

Waiting == caller.pc \in {"recv", "wait4", "pushback"}

\* the last call made panicked in RawSendPacket, before any wait
PanickedInSend == ret.call > 0 /\ ret.res.panic /\ ret.resp = <<>>

\* the operation of the call a step starts: it is waiting, or has ended
StartedOp == IF caller'.pc \in {"recv", "wait4"} THEN caller'.op ELSE ret'.op

\* C1: only checksum-valid frames are ever enqueued by the listener: every
\* frame in the pending-response queue, held by the listener for the queue,
\* held by a wait or returned by RecvResponse or wait4Response is a datagram
\* whose checksum at 0x20 equals the checksum recomputed with that field
\* zeroed.
C1_OnlyValidFramesDelivered ==
    /\ \A i \in DOMAIN responses : responses[i] \in ValidDatagrams
    /\ listener.pc = "send" => listener.response \in ValidDatagrams
    /\ caller.buf # <<>> => caller.buf \in ValidDatagrams
    /\ ret.resp # <<>> => ret.resp \in ValidDatagrams

\* a datagram with a wrong checksum was read and dropped, and a call has
\* returned a frame since
C1_Witness ==
    /\ listener.dropped # <<>>
    /\ listener.dropped \notin ValidDatagrams
    /\ ret.resp # <<>>

\* C2: wait4Response returns only a frame whose type tag at 0x26 is the
\* expected type, and it loses and duplicates no frame: the queue, with the
\* frame a wait holds to send back, has exactly the frames the listener
\* queued and no call returned.
C2_FilteredWaitKeepsFrames ==
    /\ (ret.op.name = "Auth" /\ Len(ret.resp) >= 40)
          => Uint16LE(ret.resp, 38) = AuthResponseType
    /\ BagOf(responses)
          (+) (IF caller.pc = "pushback" THEN SetToBag({caller.buf}) ELSE EmptyBag)
       = pending
    /\ caller.pc = "idle" => BagOf(responses) = pending

\* Auth's wait sent a frame of another type back, then returned the
\* authentication reply, and the frame sent back is in the queue
C2_Witness ==
    /\ ret.op.name = "Auth"
    /\ ret.pushed
    /\ ret.resp = AuthReply
    /\ caller.pc = "idle"
    /\ \E i \in DOMAIN responses :
          Uint16LE(responses[i], 38) # AuthResponseType

\* C4: when Auth returns successfully on a reply of type 0x3e9 whose payload
\* decrypts, under the key of before the call, to a 4-byte identifier and a
\* 16-byte key, the device identifier and the session key are those: for the
\* crafted reply, AuthIdBytes and AuthKey.
C4_AuthInstallsIdAndKey ==
    /\ (ret.op.name = "Auth" /\ ret.res.ok /\ Len(ret.resp) >= HeaderLen + 32)
          => LET plain == decryptMemo(pre.encKey, DefaultIv,
                                      Slice(ret.resp, HeaderLen, Len(ret.resp))).data
             IN  /\ dev.DevID = Slice(plain, 0, 4)
                 /\ dev.encKey = Slice(plain, 4, 20)
    /\ (ret.op.name = "Auth" /\ ret.res.ok /\ ret.resp = AuthReply
           /\ pre.encKey = DefaultKey)
          => (dev.DevID = AuthIdBytes /\ dev.encKey = AuthKey)

\* Auth returned successfully on the crafted reply, decrypted under the
\* default key
C4_Witness ==
    /\ ret.op.name = "Auth"
    /\ ret.res.ok
    /\ ret.resp = AuthReply
    /\ pre.encKey = DefaultKey
    /\ pre.DevID = Uint32Zero
    /\ dev.encKey = AuthKey

\* C3: a type-filtered wait always returns: once Auth is in wait4Response,
\* the call ends, whatever the listener queues meanwhile and also when the
\* queue is full as a frame is sent back.
C3_FilteredWaitReturns == (caller.pc = "wait4") ~> (caller.pc \in {"idle", "panic"})

\* Auth failed: its wait timed out, or the reply it took is shorter than the
\* header or carries less than the two blocks an identifier and a key need
AuthFailed ==
    /\ ret.op.name = "Auth"
    /\ \/ ret.res.err \in TimeoutErrors
       \/ ret.resp # <<>> /\ Len(ret.resp) < HeaderLen + 32

\* C5: when Auth fails, by the wait's timeout or on a malformed reply, it
\* returns an error and the device identifier and the session key are those
\* of before the call.
C5_FailedAuthKeepsState ==
    AuthFailed => /\ ret.res.err # ""
                  /\ ~ret.res.panic
                  /\ dev.DevID = pre.DevID
                  /\ dev.encKey = pre.encKey

\* C6: once a wait has ended with a timeout error, no later command returns,
\* as its reply, a frame that reached the socket after that timeout and
\* before the command was sent.
C6_NoStaleFrameAfterTimeout ==
    (ret.resp # <<>> /\ ret.op.name # "RecvResponse") => ~ret.late

\* C7: when the transmission fails (no socket, or an error of the write), the
\* operation returns the error at once: a caller that has sent never waits
\* for a reply to a frame that did not reach the wire, and no call ends in a
\* panic of the send instead of an error.
C7_FailedWriteNotAwaited ==
    /\ (Waiting /\ caller.op.name # "RecvResponse") => caller.written
    /\ ~PanickedInSend

\* C8: after Close, a send attempt fails fast with an error: no call that
\* sends after Close waits on the pending-response queue, and each one has
\* returned an error, neither a success nor a panic.
C8_SendAfterCloseFailsFast ==
    /\ (Waiting /\ wire.call = nCalls) => ~wire.afterClose
    /\ (ret.call > 0 /\ wire.call = ret.call /\ wire.afterClose)
          => (~ret.res.ok /\ ~ret.res.panic /\ ret.res.err # "")

\* C9: once Close has closed the socket the listener eventually terminates,
\* wherever it is at that moment: it leaves its loop, or ends, with the
\* process, in a panic.
C9_ListenerEndsAfterClose == closed ~> (listener.pc \in {"done", "panic"})

\* C10: a command that takes a reply whose header carries a nonzero error
\* code at 0x22 returns a protocol error with that code, and never success
\* or a power state.
C10_ErrorCodeSurfaced ==
    (/\ ret.op.name \in {"SetPower", "QueryPower", "SetPowerMask",
                         "SetPowerMulti", "QueryPowerRaw"}
     /\ Len(ret.resp) >= 36
     /\ Uint16LE(ret.resp, 34) # 0)
       => /\ ~ret.res.ok
          /\ ret.res.err = "Response"
          /\ ret.res.code = Uint16LE(ret.resp, 34)

\* the power operations a device of model code devType has only from the base
\* device: all five for a code in neither family list, the multi-relay ones
\* for an SP2, the single-relay ones for an MP1
Lacking(devType) ==
    IF devType \in Sp2Types
    THEN {"SetPowerMask", "SetPowerMulti", "QueryPowerRaw"}
    ELSE IF devType \in Mp1Types
    THEN {"SetPower", "QueryPower"}
    ELSE {"SetPower", "QueryPower", "SetPowerMask", "SetPowerMulti",
          "QueryPowerRaw"}

\* C11: a power operation the device's family lacks fails with "Not
\* supported": the caller never waits for it, no frame is handed to the
\* socket for it, and the sequence counter, the key and the device identifier
\* are those of before the call.
C11_UnsupportedFailsUntouched ==
    /\ Waiting => caller.op.name \notin Lacking(dev.DevType)
    /\ (ret.call > 0 /\ ret.op.name \in Lacking(dev.DevType))
          => /\ ret.res.err = "Not supported"
             /\ ~ret.res.ok
             /\ ~ret.res.panic
             /\ wire.call # ret.call
             /\ dev.SendCount = pre.SendCount
             /\ dev.encKey = pre.encKey
             /\ dev.DevID = pre.DevID

\* an SP2 that has sent one frame was then asked for a multi-relay operation
C11_Witness ==
    /\ dev.DevType \in Sp2Types
    /\ ret.call = 2
    /\ ret.op.name \in {"SetPowerMask", "SetPowerMulti", "QueryPowerRaw"}
    /\ ret.res.err = "Not supported"
    /\ wire.call = 1
    /\ dev.SendCount = 1

\* C12: checkChecksum(B, 0x20), for a buffer B that has a field at 0x20,
\* returns, leaves B as it was whatever it returns, and returns true when the
\* field at 0x20 holds the checksum of B computed with the field zeroed;
\* every frame RawSendPacket builds, with a payload or without, is accepted
\* and left as it was.
C12_CheckChecksumPure ==
    /\ (probe.fn = "checkChecksum" /\ Len(probe.buf) >= ChecksumPos + 2)
          => /\ ~probe.out.panic
             /\ probe.out.payload = probe.buf
             /\ (StoredChecksum(probe.buf) = RecomputedChecksum(probe.buf))
                   => probe.out.ok
    /\ probe.fn = "RawSendPacket"
          => /\ probe.checked.ok
             /\ ~probe.checked.panic
             /\ probe.checked.payload = probe.out.packet

\* checkChecksum returned false on the listener's 2048-byte buffer, whose
\* stored checksum is not zero
C12_Witness ==
    /\ probe.fn = "checkChecksum"
    /\ Len(probe.buf) = BufSize
    /\ StoredChecksum(probe.buf) # 0
    /\ ~probe.out.ok

\* C13: for a relay index i in 1..8, SetPowerMulti(i, on) sends the command
\* and the payload SetPowerMask(1 << (i-1), on) sends, with mask byte
\* 1 << (i-1) at offset 13 (0x01 for index 1, 0x04 for index 3), and returns
\* what SetPowerMask returns on the same reply.
C13_MultiIsMaskOfIndex ==
    probe.fn = "SetPowerMulti"
       => LET smask     == 2 ^ (probe.no - 1)
              viaMulti  == Op("SetPowerMulti", probe.onstate, 0, probe.no)
              viaMask   == Op("SetPowerMask", probe.onstate, smask, 0)
          IN  /\ probe.out = Request(viaMask)
              /\ probe.out.payload = SetPowerMaskPayload(smask, probe.onstate)
              /\ probe.out.payload[14] = smask
              /\ probe.no = 1 => probe.out.payload[14] = 1
              /\ probe.no = 3 => probe.out.payload[14] = 4
              /\ \A d \in ProbeDevices, resp \in Datagrams :
                    Reply(d, viaMulti, resp) = Reply(d, viaMask, resp)

\* SetPowerMulti(3, true) built a payload with mask byte 0x04
C13_Witness ==
    /\ probe.fn = "SetPowerMulti"
    /\ probe.no = 3
    /\ probe.onstate
    /\ probe.out.payload[14] = 4
    /\ probe.out.command = CmdEnvelope

\* C14: for every 8-bit mask m, the payload of SetPowerMask(m, on) has at
\* offset 6 the control byte ((m << 1) + 0xb2) mod 256 when on and
\* (m + 0xb2) mod 256 when off, at offset 13 the mask m and at offset 14 the
\* enabled sub-mask, m when on and 0 when off (for mask 0x05: control byte
\* 0xbc on, 0xb7 off).
C14_MaskPayloadBytes ==
    probe.fn = "SetPowerMask"
       => LET m  == probe.smask
              pl == probe.out.payload
          IN  /\ Len(pl) = 16
              /\ pl[7] = IF probe.onstate THEN (2 * m + 178) % 256
                                          ELSE (m + 178) % 256
              /\ pl[14] = m
              /\ pl[15] = IF probe.onstate THEN m ELSE 0
              /\ (m = 5 /\ probe.onstate) => pl[7] = 188
              /\ (m = 5 /\ ~probe.onstate) => pl[7] = 183

\* SetPowerMask(0xc8, true): the shift and the bias both leave the byte, and
\* the control byte is 0x42
C14_Witness ==
    /\ probe.fn = "SetPowerMask"
    /\ probe.smask = 200
    /\ probe.onstate
    /\ probe.out.payload[7] = 66
    /\ probe.out.payload[15] = 200

\* C15: for a plaintext P and a 16-byte key and IV, decrypt(key, iv,
\* encrypt(key, iv, P)) is P followed by 16 - (len(P) mod 16) zero bytes, a
\* whole block of them when P is block-aligned; neither call fails.
C15_DecryptEncryptIsPad ==
    probe.fn = "encrypt"
       => /\ probe.enc.err = ""
          /\ ~probe.enc.panic
          /\ probe.dec.err = ""
          /\ ~probe.dec.panic
          /\ Len(probe.enc.data) = Len(probe.text) + 16 - (Len(probe.text) % 16)
          /\ probe.dec.data
                = probe.text
                     \o [i \in 1..(16 - (Len(probe.text) % 16)) |-> 0]

\* a block-aligned plaintext came back with a whole block of zeros behind it,
\* and its ciphertext is not the padded plaintext
C15_Witness ==
    /\ probe.fn = "encrypt"
    /\ Len(probe.text) = 16
    /\ Len(probe.dec.data) = 32
    /\ Slice(probe.dec.data, 0, 16) = probe.text
    /\ probe.enc.data # probe.dec.data

\* the part of frame f behind the header
Body(f) == Slice(f, HeaderLen, Len(f))

\* the last call that returned was an Auth that succeeded on a reply holding
\* an identifier and a key
Rotated ==
    /\ ret.op.name = "Auth"
    /\ ret.res.ok
    /\ Len(ret.resp) >= HeaderLen + 32

\* the identifier and the key in force once the last call has returned: those
\* of the reply after such an Auth, otherwise those of before that call
InForce ==
    IF Rotated
    THEN LET plain == decryptMemo(pre.encKey, DefaultIv, Body(ret.resp)).data
         IN  [DevID |-> Slice(plain, 0, 4), encKey |-> Slice(plain, 4, 20)]
    ELSE [DevID |-> pre.DevID, encKey |-> pre.encKey]

\* a frame is sent: it carries the identifier in force at 0x30, and its body
\* is the payload under the key in force and the default IV
SendsUnderKeyInForce ==
    (nCalls' = nCalls + 1 /\ wire'.call = nCalls')
       => /\ Slice(wire'.packet, 48, 52) = InForce.DevID
          /\ Body(wire'.packet)
                = IF Request(StartedOp).payload = <<>> THEN <<>>
                  ELSE encryptMemo(InForce.encKey, DefaultIv,
                                   padding(Request(StartedOp).payload,
                                           BlockSize)).data
          /\ nCalls = 0 => /\ InForce.encKey = DefaultKey
                           /\ InForce.DevID = Uint32Zero

\* a reply is decrypted under the key the device had when the call was made,
\* which is the key in force then
DecryptsUnderKeyInForce ==
    /\ Rotated => /\ dev.DevID = InForce.DevID
                  /\ dev.encKey = InForce.encKey
    /\ (ret.op.name = "QueryPower" /\ ret.res.err = "" /\ ~ret.res.panic
           /\ ret.call > 0)
          => ret.res.ok
                = (decryptMemo(pre.encKey, DefaultIv, Body(ret.resp)).data[5]
                      \in {1, 3, 253})
    /\ (ret.op.name = "QueryPowerRaw" /\ ret.res.err = "" /\ ~ret.res.panic
           /\ ret.call > 0)
          => ret.res.value
                = decryptMemo(pre.encKey, DefaultIv, Body(ret.resp)).data[15]

\* C16: key rotation.  Auth's request and the decryption of its reply use the
\* key of before the handshake; after a successful Auth every frame sent
\* carries the new identifier at 0x30 and is encrypted, and every reply
\* decrypted, under the new key; before any successful Auth the key is the
\* default one and the identifier 0.  The IV never changes.
C16_KeyRotationOrdering ==
    /\ [](dev.encIv = DefaultIv /\ DecryptsUnderKeyInForce)
    /\ [][SendsUnderKeyInForce]_vars

\* after a successful Auth, QueryPower sent its frame with the new identifier
\* and read "on" from a reply encrypted under the new key
C16_Witness ==
    /\ nCalls = 2
    /\ wire.call = 2
    /\ pre.encKey = AuthKey
    /\ pre.DevID = AuthIdBytes
    /\ Slice(wire.packet, 48, 52) = AuthIdBytes
    /\ ret.op.name = "QueryPower"
    /\ ret.resp = PowerReply
    /\ ret.res.ok

\* a step hands no frame to the socket and leaves the counter, or it is the
\* start of a call, which counts once, modulo 2^16, and hands the socket one
\* frame with the new count at 0x28; a call of an operation the device has,
\* RecvResponse on its own apart, is such a step
OneFramePerCall ==
    /\ \/ /\ wire' = wire
          /\ dev'.SendCount = dev.SendCount
       \/ /\ nCalls' = nCalls + 1
          /\ wire'.call = nCalls'
          /\ dev'.SendCount = (dev.SendCount + 1) % 65536
          /\ Uint16LE(wire'.packet, 40) = dev'.SendCount
    /\ (nCalls' = nCalls + 1 /\ ret'.res.err # "Not supported"
           /\ StartedOp.name # "RecvResponse")
          => wire'.call = nCalls'

\* a call that has returned, with a timeout too, has counted once and its
\* frame is the last one the socket was handed; on a new device that frame
\* carries 1
CountedOnce ==
    /\ (ret.call > 0 /\ ret.res.err # "Not supported"
           /\ ret.op.name # "RecvResponse")
          => /\ wire.call = ret.call
             /\ dev.SendCount = (pre.SendCount + 1) % 65536
             /\ Uint16LE(wire.packet, 40) = dev.SendCount
    /\ (wire.call > 0 /\ wire.call = nCalls /\ pre.SendCount = 0)
          => Uint16LE(wire.packet, 40) = 1

\* C17: each call of Auth or of a power operation the device has hands the
\* socket exactly one frame, also when its wait times out, and adds one to
\* the 16-bit sequence counter (0xffff wraps to 0); the frame carries the new
\* count at 0x28, so successive frames carry successive counts, from 1 on.
C17_OneFrameOneCount ==
    /\ []CountedOnce
    /\ [][OneFramePerCall]_vars

\* a call on a device at count 0xffff timed out: its one frame carries 0 and
\* the counter is 0
C17_Witness ==
    /\ pre.SendCount = 65535
    /\ dev.SendCount = 0
    /\ ret.call = wire.call
    /\ ret.res.err = "Timeout"
    /\ Uint16LE(wire.packet, 40) = 0

\* a step that ends RecvResponse either returns "Timeout", the channel empty
\* and left so, the timeout over; or returns the head of the channel and
\* leaves the channel without it, the rest in order.  No time passes in
\* RecvResponse while the channel holds a frame.
RecvTakesHead ==
    /\ (caller.pc = "recv" /\ caller'.pc # "recv")
          => \/ /\ ret'.res.err = "Timeout"
                /\ ret'.resp = <<>>
                /\ responses = <<>>
                /\ responses' = <<>>
                /\ pending' = pending
                /\ clock >= caller.timeout
             \/ /\ ret'.res.err # "Timeout"
                /\ responses # <<>>
                /\ ret'.resp = Head(responses)
                /\ responses' = Tail(responses)
                /\ pending' = pending (-) SetToBag({Head(responses)})
    /\ (caller.pc = "recv" /\ responses # <<>>) => clock' = clock

\* C18: RecvResponse returns the frame at the head of the channel and removes
\* that frame only, the others staying in order; it returns "Timeout" only
\* when the channel was empty for the whole timeout, and then removes nothing.
C18_RecvTakesHeadOrTimesOut == [][RecvTakesHead]_vars

\* SendPacket returned the older of two queued frames, and the newer, a
\* different frame, is still queued
C18_Witness ==
    /\ ret.call > 0
    /\ ret.op.name \in {"SetPower", "QueryPower", "SetPowerMask",
                        "SetPowerMulti", "QueryPowerRaw"}
    /\ ret.resp # <<>>
    /\ Len(responses) = 1
    /\ responses[1] # ret.resp
    /\ BagOf(responses) = pending

\* 0xbeaf plus the bytes of s, modulo 2^16
SumFromBeaf(s) ==
    LET sum[i \in 0..Len(s)] ==
            IF i = 0 THEN 48815 ELSE (sum[i - 1] + s[i]) % 65536
    IN  sum[Len(s)]

\* C19: a frame RawSendPacket builds with a non-empty payload has at 0x34
\* the checksum, 0xbeaf plus every byte modulo 2^16, of the plaintext the CBC
\* encryption was fed (what the frame's body decrypts to), which is the
\* payload padded twice: once before the checksum, once inside encrypt.  With
\* an empty payload the field is 0 and the frame is 0x38 bytes long.
C19_PayloadChecksumOfPlaintext ==
    probe.fn = "RawSendPacket"
       => LET pkt == probe.out.packet
              n   == Len(probe.payload)
              fed == CBCDecrypt(probe.dev.encKey, probe.dev.encIv,
                                Slice(pkt, HeaderLen, Len(pkt)))
          IN  IF n > 0
              THEN /\ Len(pkt) = HeaderLen + n + (16 - (n % 16)) + 16
                   /\ fed = probe.payload \o [i \in 1..(32 - (n % 16)) |-> 0]
                   /\ Uint16LE(pkt, 52) = SumFromBeaf(fed)
              ELSE /\ Len(pkt) = HeaderLen
                   /\ Uint16LE(pkt, 52) = 0

\* RawSendPacket built a frame for a block-aligned payload: two blocks of
\* padding follow it, and the field at 0x34 is not 0
C19_Witness ==
    /\ probe.fn = "RawSendPacket"
    /\ Len(probe.payload) = 16
    /\ Len(probe.out.packet) = HeaderLen + 48
    /\ Uint16LE(probe.out.packet, 52) # 0
    /\ probe.dev.encKey = AuthKey

\* C20: every frame the listener queues is long enough for the reads made on
\* it: no call panics taking the type tag at 0x26, the error code at 0x22 or
\* the payload from 0x38 of a frame shorter than the 0x38-byte header.
C20_NoReadPastFrameEnd ==
    (ret.res.panic /\ ret.resp # <<>>) => Len(ret.resp) >= HeaderLen

====
